---- MODULE Spec2Model ----
(***************************************************************************)
(* LightDNS: a UDP DNS responder (dnsserver.go) answering A/INET questions *)
(* from a JSON file of name -> address records (names.json), with an HTTP  *)
(* endpoint that upserts records into the same file.                       *)
(*                                                                         *)
(* Strings and byte slices are sequences of bytes (0..255).  A Go panic in *)
(* any goroutine terminates the whole process.                             *)
(***************************************************************************)
EXTENDS Integers, Sequences, FiniteSets, TLC

VARIABLES
    file,      \* content of ./names.json, the backing store
    h,         \* handleDNSClient goroutines, one per received datagram
    sent,      \* responses written to the socket, per destination address
    nRecv,     \* successful ReadFromUDP calls of the main loop so far
    nErr,      \* failed ReadFromUDP calls of the main loop so far
    adds,      \* handleAddEntry invocations of the HTTP server
    crashed,   \* the process has died of an unrecovered panic
    arg,       \* input of the function under test (function specifications)
    ret        \* <<result>> once the function under test has been applied

vars == <<file, h, sent, nRecv, nErr, adds, crashed, arg, ret>>

(***************************************************************************)
(* Bounds of the model.                                                    *)
(***************************************************************************)
MaxDatagrams == 2
MaxRecvErrors == 1
MaxAddRequests == 2
\* datagrams and add-entry requests together
MaxRequests == 3
MaxNameLen == 4

(***************************************************************************)
(* Program constants.                                                      *)
(***************************************************************************)
TypeA == 1
ClassINET == 1
FlagResponse == 32768
UDPMaxMessageSizeBytes == 512
FixedTimeToLive == 31337
FixedResourceDataLength == 4
HeaderSizeBytes == 12
IPv6len == 16
IPv4Offset == 12
Dot == 46

Min(a, b) == IF a < b THEN a ELSE b

\* uint16(x), byte(x): Go's truncating integer conversions
Uint16Of(n) == n % 65536
ByteOf(n) == n % 256

\* binary.BigEndian.Uint16(b) on a two-byte slice
BigEndianUint16(hi, lo) == hi * 256 + lo

(***************************************************************************)
(* Strings.                                                                *)
(***************************************************************************)
\* strings.Contains(s, substr)
Contains(s, substr) ==
    \E i \in 0..(Len(s) - Len(substr)) :
        SubSeq(s, i + 1, i + Len(substr)) = substr

\* index of the first "." of s, 0 when there is none
FirstDot(s) ==
    IF \E i \in 1..Len(s) : s[i] = Dot
    THEN CHOOSE i \in 1..Len(s) : s[i] = Dot /\ \A j \in 1..(i - 1) : s[j] # Dot
    ELSE 0

\* strings.Split(s, "."): never empty, Split("") is one empty label
RECURSIVE Split(_)
Split(s) ==
    LET i == FirstDot(s)
    IN  IF i = 0 THEN <<s>>
        ELSE <<SubSeq(s, 1, i - 1)>> \o Split(SubSeq(s, i + 1, Len(s)))

\* concatenation of a sequence of sequences, by halves
RECURSIVE FlattenRange(_, _, _)
FlattenRange(ss, lo, hi) ==
    IF lo > hi THEN <<>>
    ELSE IF lo = hi THEN ss[lo]
    ELSE LET mid == (lo + hi) \div 2
         IN  FlattenRange(ss, lo, mid) \o FlattenRange(ss, mid + 1, hi)

Flatten(ss) == FlattenRange(ss, 1, Len(ss))

(***************************************************************************)
(* Name codec.                                                             *)
(***************************************************************************)
\* the one element of a singleton set.  Only({F(x) : x \in {e}}) is F(e)
\* with e evaluated once, before F is.
Only(S) == CHOOSE x \in S : TRUE

\* the label loop of readDomainName (lines 73-83): st.b was just read,
\* st.off bytes are consumed, st.name is the name so far
RECURSIVE LabelLoop(_, _)
LabelLoop(buf, st) ==
    IF st.b = 0 THEN [name |-> st.name, off |-> st.off, err |-> FALSE]
    ELSE LET n == Min(st.b, Len(buf) - st.off)     \* Buffer.Next(labelLength)
             labelName == SubSeq(buf, st.off + 1, st.off + n)
             name2 == IF Len(st.name) = 0 THEN labelName
                      ELSE st.name \o <<Dot>> \o labelName
             off2 == st.off + n
         IN  IF off2 >= Len(buf)                     \* ReadByte: io.EOF
             THEN [name |-> name2, off |-> off2, err |-> TRUE]
             ELSE Only({LabelLoop(buf, next) :
                          next \in {[name |-> name2, off |-> off2 + 1,
                                     b |-> buf[off2 + 1]]}})

\* readDomainName on a buffer of which off bytes are consumed:
\* the name, the bytes consumed afterwards, and whether err # nil
readDomainName(buf, off) ==
    IF off >= Len(buf)
    THEN [name |-> <<>>, off |-> off, err |-> TRUE]
    ELSE LabelLoop(buf, [name |-> <<>>, off |-> off + 1, b |-> buf[off + 1]])

\* one label as written by the loop of writeDomainName
WriteLabel(label) == <<ByteOf(Len(label))>> \o label

\* writeDomainName: the response buffer afterwards
writeDomainName(responseBuffer, domainName) ==
    LET labels == Split(domainName)
    IN  responseBuffer
            \o Flatten([i \in 1..Len(labels) |-> WriteLabel(labels[i])])
            \o <<0>>

(***************************************************************************)
(* The name table: ./names.json holds a JSON array of {name, address}.     *)
(* file.ok is FALSE when the file is missing, unreadable or not valid JSON *)
(* (an empty or partly written file).  An address text is either the       *)
(* dotted-quad rendering of four bytes or a text that is no IP address.    *)
(***************************************************************************)
V4Text(quad) == [text |-> "dotted-quad", quad |-> quad]
BadText(s) == [text |-> s, quad |-> <<>>]

V4InV6Prefix == <<0, 0, 0, 0, 0, 0, 0, 0, 0, 0, 255, 255>>

\* net.ParseIP: the 16-byte form of an IPv4 address, nil for any other text here
ParseIP(t) == IF t.text = "dotted-quad" THEN V4InV6Prefix \o t.quad ELSE <<>>

\* net.IP.MarshalText, as json.MarshalIndent renders a Name's Address
IPText(ip) ==
    IF Len(ip) = 0 THEN BadText("")
    ELSE V4Text(SubSeq(ip, IPv4Offset + 1, IPv6len))

\* To: []NameModel -> []Name
To(models) ==
    [i \in 1..Len(models) |->
        [Name |-> models[i].name, Address |-> ParseIP(models[i].address)]]

\* GetNames: read and unmarshal the file
GetNames(f) ==
    IF ~f.ok THEN [err |-> TRUE, names |-> <<>>]
    ELSE [err |-> FALSE, names |-> To(f.entries)]

(***************************************************************************)
(* Resolver.                                                               *)
(***************************************************************************)
NoRecords == [panic |-> FALSE, answers |-> <<>>, authorities |-> <<>>,
              additionals |-> <<>>]

\* the answer record dbLookup appends for a matching entry
AnswerRecord(name) ==
    [DomainName |-> name.Name, Type |-> TypeA, Class |-> ClassINET,
     TimeToLive |-> FixedTimeToLive,
     ResourceData |-> SubSeq(name.Address, IPv4Offset + 1, IPv6len),
     ResourceDataLength |-> FixedResourceDataLength]

\* whether an entry is appended by the loop of dbLookup
Matches(q, name) == Contains(q.DomainName, name.Name)

\* dbLookup with the test of line 47 taken as "type and class both differ"
dbLookupBothDiffer(q, f) ==
    LET g == GetNames(f)
    IN  IF g.err THEN NoRecords
        ELSE IF q.Type # TypeA /\ q.Class # ClassINET THEN NoRecords
        ELSE LET hit == SelectSeq(g.names, LAMBDA n : Matches(q, n))
             IN  IF \E i \in 1..Len(hit) : Len(hit[i].Address) < IPv6len
                 THEN [NoRecords EXCEPT !.panic = TRUE]
                 ELSE [NoRecords EXCEPT
                         !.answers = [i \in 1..Len(hit) |-> AnswerRecord(hit[i])]]

\* dbLookup with ./names.json holding f.  name.Address[12:16] panics (slice
\* bounds out of range) when the address is shorter than 16 bytes.
dbLookup(q, f) ==
    LET g == GetNames(f)
    IN  IF g.err THEN NoRecords
        ELSE IF q.Type # TypeA \/ q.Class # ClassINET THEN NoRecords
        ELSE LET hit == SelectSeq(g.names, LAMBDA n : Matches(q, n))
             IN  IF \E i \in 1..Len(hit) : Len(hit[i].Address) < IPv6len
                 THEN [NoRecords EXCEPT !.panic = TRUE]
                 ELSE [NoRecords EXCEPT
                         !.answers = [i \in 1..Len(hit) |-> AnswerRecord(hit[i])]]

(***************************************************************************)
(* Request decoding.                                                       *)
(***************************************************************************)
ZeroHeader ==
    [TransactionID |-> 0, Flags |-> 0, NumQuestions |-> 0, NumAnswers |-> 0,
     NumAuthorities |-> 0, NumAdditionals |-> 0]

\* binary.Read(requestBuffer, binary.BigEndian, &queryHeader)
DecodeHeader(buf) ==
    IF Len(buf) < HeaderSizeBytes
    THEN [err |-> TRUE, hdr |-> ZeroHeader, off |-> Len(buf)]
    ELSE [err |-> FALSE,
          hdr |-> [TransactionID  |-> BigEndianUint16(buf[1], buf[2]),
                   Flags          |-> BigEndianUint16(buf[3], buf[4]),
                   NumQuestions   |-> BigEndianUint16(buf[5], buf[6]),
                   NumAnswers     |-> BigEndianUint16(buf[7], buf[8]),
                   NumAuthorities |-> BigEndianUint16(buf[9], buf[10]),
                   NumAdditionals |-> BigEndianUint16(buf[11], buf[12])],
          off |-> HeaderSizeBytes]

QuestionRecord(name, type, class) ==
    [DomainName |-> name, Type |-> type, Class |-> class, TimeToLive |-> 0,
     ResourceDataLength |-> 0, ResourceData |-> <<>>]

\* one iteration of the question loop of handleDNSClient (lines 118-125).
\* binary.BigEndian.Uint16 panics (index out of range) on a slice shorter
\* than two bytes, which Buffer.Next(2) returns once the buffer runs out.
ReadQuestion(buf, off) ==
    Only({IF Len(buf) - r.off < 4
          THEN [panic |-> TRUE, off |-> r.off, err |-> r.err,
                q |-> QuestionRecord(r.name, 0, 0)]
          ELSE [panic |-> FALSE, off |-> r.off + 4, err |-> r.err,
                q |-> QuestionRecord(r.name,
                          BigEndianUint16(buf[r.off + 1], buf[r.off + 2]),
                          BigEndianUint16(buf[r.off + 3], buf[r.off + 4]))] :
            r \in {readDomainName(buf, off)}})

\* the state of the question loop after one more iteration
ReadNext(buf, st) ==
    Only({[panic     |-> r.panic,
           questions |-> IF r.panic THEN st.questions
                         ELSE Append(st.questions, r.q),
           off       |-> r.off,
           nameErrs  |-> IF r.err THEN st.nameErrs + 1 ELSE st.nameErrs] :
            r \in {ReadQuestion(buf, st.off)}})

\* the question loop (lines 117-126) with n questions still to read, st
\* being the questions read so far and the bytes consumed.  The iterations
\* are taken eight at a time to keep the evaluation shallow.
RECURSIVE ReadQuestions(_, _, _)
ReadQuestions(buf, st, n) ==
    IF st.panic \/ n = 0 THEN st
    ELSE IF n > 8
    THEN Only({ReadQuestions(buf, mid, n - 8) :
                 mid \in {ReadQuestions(buf, st, 8)}})
    ELSE Only({ReadQuestions(buf, next, n - 1) :
                 next \in {ReadNext(buf, st)}})

\* lines 105-126 of handleDNSClient
DecodeRequest(requestBytes) ==
    LET d == DecodeHeader(requestBytes)
    IN  Only({[hdrErr |-> d.err, hdr |-> d.hdr, panic |-> q.panic,
               questions |-> q.questions, off |-> q.off,
               nameErrs |-> q.nameErrs] :
                q \in {ReadQuestions(requestBytes,
                           [panic |-> FALSE, questions |-> <<>>,
                            off |-> d.off, nameErrs |-> 0],
                           d.hdr.NumQuestions)}})

(***************************************************************************)
(* Response encoding.                                                      *)
(***************************************************************************)
\* Write(buffer, v): big-endian, fixed width
WriteUint16(v) == <<v \div 256, v % 256>>
WriteUint32(v) ==
    <<v \div 16777216, (v \div 65536) % 256, (v \div 256) % 256, v % 256>>

WriteHeader(hdr) ==
    WriteUint16(hdr.TransactionID) \o WriteUint16(hdr.Flags)
        \o WriteUint16(hdr.NumQuestions) \o WriteUint16(hdr.NumAnswers)
        \o WriteUint16(hdr.NumAuthorities) \o WriteUint16(hdr.NumAdditionals)

\* one iteration of the question loop (lines 158-167)
EncodeQuestion(q) ==
    writeDomainName(<<>>, q.DomainName) \o WriteUint16(q.Type)
        \o WriteUint16(q.Class)

\* one iteration of a record loop (lines 169-209)
EncodeRecord(rr) ==
    writeDomainName(<<>>, rr.DomainName) \o WriteUint16(rr.Type)
        \o WriteUint16(rr.Class) \o WriteUint32(rr.TimeToLive)
        \o WriteUint16(rr.ResourceDataLength) \o rr.ResourceData

\* lines 143-150 with the flags of the query kept and the response bit set
ResponseHeaderKeepsFlags(queryHeader, answers, authorities, additionals) ==
    [TransactionID  |-> queryHeader.TransactionID,
     Flags          |-> IF queryHeader.Flags >= FlagResponse
                        THEN queryHeader.Flags
                        ELSE queryHeader.Flags + FlagResponse,
     NumQuestions   |-> queryHeader.NumQuestions,
     NumAnswers     |-> Uint16Of(Len(answers)),
     NumAuthorities |-> Uint16Of(Len(authorities)),
     NumAdditionals |-> Uint16Of(Len(additionals))]

\* lines 143-150
ResponseHeader(queryHeader, answers, authorities, additionals) ==
    [TransactionID  |-> queryHeader.TransactionID,
     Flags          |-> FlagResponse,
     NumQuestions   |-> queryHeader.NumQuestions,
     NumAnswers     |-> Uint16Of(Len(answers)),
     NumAuthorities |-> Uint16Of(Len(authorities)),
     NumAdditionals |-> Uint16Of(Len(additionals))]

\* lines 140-209: the response, one byte string per record written
BuildResponse(queryHeader, questions, answers, authorities, additionals) ==
    [header      |-> ResponseHeader(queryHeader, answers, authorities,
                                    additionals),
     questions   |-> [i \in 1..Len(questions) |-> EncodeQuestion(questions[i])],
     answers     |-> [i \in 1..Len(answers) |-> EncodeRecord(answers[i])],
     authorities |-> [i \in 1..Len(authorities) |->
                         EncodeRecord(authorities[i])],
     additionals |-> [i \in 1..Len(additionals) |->
                         EncodeRecord(additionals[i])]]

\* responseBuffer.Bytes()
ResponseBytes(m) ==
    WriteHeader(m.header) \o Flatten(m.questions) \o Flatten(m.answers)
        \o Flatten(m.authorities) \o Flatten(m.additionals)

NoResponse ==
    [header |-> ZeroHeader, questions |-> <<>>, answers |-> <<>>,
     authorities |-> <<>>, additionals |-> <<>>]

\* lines 132-138 with the questions looked up last to first
ResolveAllLastFirst(questions, f) ==
    LET n == Len(questions)
        rs == [i \in 1..n |-> dbLookup(questions[n + 1 - i], f)]
    IN  IF \E i \in 1..Len(rs) : rs[i].panic
        THEN [NoRecords EXCEPT !.panic = TRUE]
        ELSE [panic       |-> FALSE,
              answers     |-> Flatten([i \in 1..Len(rs) |-> rs[i].answers]),
              authorities |-> Flatten([i \in 1..Len(rs) |->
                                          rs[i].authorities]),
              additionals |-> Flatten([i \in 1..Len(rs) |->
                                          rs[i].additionals])]

\* lines 132-138 with ./names.json holding f throughout: the lookups of the
\* questions do not depend on one another, the sections are their results
\* in question order, and a panic in any of them ends the handler
ResolveAll(questions, f) ==
    LET rs == [i \in 1..Len(questions) |-> dbLookup(questions[i], f)]
    IN  IF \E i \in 1..Len(rs) : rs[i].panic
        THEN [NoRecords EXCEPT !.panic = TRUE]
        ELSE [panic       |-> FALSE,
              answers     |-> Flatten([i \in 1..Len(rs) |-> rs[i].answers]),
              authorities |-> Flatten([i \in 1..Len(rs) |->
                                          rs[i].authorities]),
              additionals |-> Flatten([i \in 1..Len(rs) |->
                                          rs[i].additionals])]

\* handleDNSClient run to its end with ./names.json holding f throughout:
\* where it panicked ("" when it did not), what it decoded and resolved,
\* and the response it passed to WriteToUDP
handleDNSClient(requestBytes, f) ==
    LET d == DecodeRequest(requestBytes)
        r == ResolveAll(d.questions, f)
    IN  IF d.panic
        THEN [panic |-> "decode", hdr |-> d.hdr, questions |-> d.questions,
              answers |-> <<>>, response |-> NoResponse]
        ELSE IF r.panic
        THEN [panic |-> "lookup", hdr |-> d.hdr, questions |-> d.questions,
              answers |-> <<>>, response |-> NoResponse]
        ELSE [panic |-> "", hdr |-> d.hdr, questions |-> d.questions,
              answers |-> r.answers,
              response |-> BuildResponse(d.hdr, d.questions, r.answers,
                                         r.authorities, r.additionals)]

(***************************************************************************)
(* Function specifications: Init draws an input, the one action applies    *)
(* the function to it.  The server does not run in them.                   *)
(***************************************************************************)
serverVars == <<file, h, sent, nRecv, nErr, adds, crashed>>

NoFile == [ok |-> FALSE, entries |-> <<>>]

ServerOff ==
    /\ file = NoFile
    /\ h = <<>>
    /\ sent = <<>>
    /\ nRecv = 0
    /\ nErr = 0
    /\ adds = <<>>
    /\ crashed = FALSE

Applied == Len(ret) = 1

\* every byte string over alphabet of at most n bytes
StringsUpTo(alphabet, n) == UNION {[1..k -> alphabet] : k \in 0..n}

\* the letters "a" and "b"
Letters == <<97, 98>>
LetterA == Letters[1]
LetterB == Letters[2]
MaxLabelLen == 255

\* ---- the name codec: writeDomainName, then readDomainName of its output
LongLabel == [i \in 1..MaxLabelLen |-> LetterA]

CodecNames ==
    StringsUpTo({LetterA, LetterB, Dot}, MaxNameLen)
        \cup {LongLabel, LongLabel \o <<Dot, LetterB>>}

CodecInit == ServerOff /\ arg \in CodecNames /\ ret = <<>>

CodecApply ==
    /\ ret = <<>>
    /\ LET wire == writeDomainName(<<>>, arg)
       IN  ret' = <<[wire |-> wire, back |-> readDomainName(wire, 0)]>>
    /\ UNCHANGED <<arg, serverVars>>

CodecSpec == CodecInit /\ [][CodecApply]_vars

\* ---- the resolver: dbLookup of one question over one content of the file
MaxTableLen == 2
MaxQueryNameLen == 2
\* a type and a class the resolver does not serve: AAAA, CHAOS
NotServed == <<28, 3>>
TypeAAAA == NotServed[1]
ClassCHAOS == NotServed[2]

Quad1 == <<1, 2, 3, 4>>
Quad2 == <<5, 6, 7, 8>>

TableEntries ==
    [name : {<<LetterA>>, <<LetterB>>, <<LetterA, LetterB>>},
     address : {V4Text(Quad1), V4Text(Quad2), BadText("bogus")}]

Tables == UNION {[1..k -> TableEntries] : k \in 0..MaxTableLen}

LookupFiles == {NoFile} \cup {[ok |-> TRUE, entries |-> t] : t \in Tables}

LookupQuestions ==
    {QuestionRecord(n, t, c) :
        n \in StringsUpTo({LetterA, LetterB}, MaxQueryNameLen),
        t \in {TypeA, TypeAAAA}, c \in {ClassINET, ClassCHAOS}}

LookupInit ==
    /\ ServerOff
    /\ arg \in [q : LookupQuestions, f : LookupFiles]
    /\ ret = <<>>

LookupApply ==
    /\ ret = <<>>
    /\ ret' = <<dbLookup(arg.q, arg.f)>>
    /\ UNCHANGED <<arg, serverVars>>

LookupSpec == LookupInit /\ [][LookupApply]_vars

\* ---- the handler: one datagram received and handled with the file unchanged
\* lines 251-253: a fresh 512-byte buffer, filled with (at most 512 bytes
\* of) the datagram; the whole buffer is what the handler is given
RecvBuffer(dg) ==
    [i \in 1..UDPMaxMessageSizeBytes |-> IF i <= Len(dg) THEN dg[i] ELSE 0]

\* what a client puts on the wire (RFC 1035): a name is its labels, each
\* after its length, and one zero byte
WireName(labels) ==
    Flatten([i \in 1..Len(labels) |-> <<Len(labels[i])>> \o labels[i]])
        \o <<0>>

WireQuestion(labels, type, class) ==
    WireName(labels) \o WriteUint16(type) \o WriteUint16(class)

Query(id, numQuestions, body) ==
    WriteUint16(id) \o WriteUint16(256)
        \o WriteUint16(numQuestions) \o <<0, 0, 0, 0, 0, 0>> \o body

\* transaction IDs of the queries
QueryId(i) == 4660 + i

SingleQueries ==
    {Query(QueryId(0), 1, WireQuestion(l, t, c)) :
        l \in {<<>>, <<<<LetterA>>>>, <<<<LetterA, LetterB>>>>,
               <<<<LetterB>>, <<LetterA>>>>},
        t \in {TypeA, TypeAAAA}, c \in {ClassINET, ClassCHAOS}}

DgTwo ==
    Query(QueryId(1), 2,
          WireQuestion(<<<<LetterA, LetterB>>>>, TypeA, ClassINET)
              \o WireQuestion(<<<<LetterA>>>>, TypeA, ClassINET))

DgMixed ==
    Query(QueryId(2), 2,
          WireQuestion(<<<<LetterB>>>>, TypeAAAA, ClassINET)
              \o WireQuestion(<<<<LetterA>>>>, TypeA, ClassINET))

\* as many questions of name "a" as a 512-byte datagram holds
BigQuestions == (UDPMaxMessageSizeBytes - HeaderSizeBytes) \div 7

DgBig ==
    Query(QueryId(3), BigQuestions,
          Flatten([i \in 1..BigQuestions |->
                      WireQuestion(<<<<LetterA>>>>, TypeA, ClassINET)]))

WellFormedQueries == SingleQueries \cup {DgTwo, DgMixed, DgBig}

\* the question section of a well-formed query
QuestionSection(dg) == SubSeq(dg, HeaderSizeBytes + 1, Len(dg))

\* a header announcing more questions than the buffer holds
DgNoBody == Query(QueryId(4), 65535, <<>>)

\* a second label whose length byte exceeds what is left of the buffer
DgOverrun ==
    Query(QueryId(5), 1,
          <<MaxLabelLen>> \o LongLabel \o <<MaxLabelLen - 5>>)

\* two questions announced, one present: its name fills the buffer up to
\* the last two bytes
DgTooFew ==
    Query(QueryId(6), 2,
          <<MaxLabelLen>> \o LongLabel
              \o <<236>> \o [i \in 1..236 |-> LetterB]
              \o <<0>> \o WriteUint16(TypeA) \o WriteUint16(ClassINET))

\* a datagram shorter than a header
DgShort == <<0, 11, 1>>

\* one question, for "a" and for the root name
DgA == Query(QueryId(0), 1, WireQuestion(<<<<LetterA>>>>, TypeA, ClassINET))
DgRoot == Query(QueryId(0), 1, WireQuestion(<<>>, TypeA, ClassINET))

\* queries for "a" under other transaction IDs and flags: none, the
\* response bit, a response with recursion, every bit
FlagQueries ==
    {WriteUint16(id) \o WriteUint16(flags) \o WriteUint16(1)
         \o <<0, 0, 0, 0, 0, 0>>
         \o WireQuestion(<<<<LetterA>>>>, TypeA, ClassINET) :
        id \in {0, 4660, 65535}, flags \in {0, 32768, 33152, 65535}}

Datagrams ==
    WellFormedQueries \cup FlagQueries
        \cup {DgNoBody, DgTooFew, DgOverrun, DgShort}

\* enough entries named "a" for DgBig to draw 2^16 answers or more
BigTableLen == 65536 \div BigQuestions + 1

BigFile ==
    [ok |-> TRUE,
     entries |-> [i \in 1..BigTableLen |->
                     [name |-> <<LetterA>>,
                      address |-> V4Text(<<10, 0, i \div 256, i % 256>>)]]]

FileOf(entries) == [ok |-> TRUE, entries |-> entries]

GoodFile ==
    FileOf(<<[name |-> <<LetterA>>, address |-> V4Text(Quad1)],
             [name |-> <<LetterA, LetterB>>, address |-> V4Text(Quad2)]>>)

BadAddressFile ==
    FileOf(<<[name |-> <<LetterA>>, address |-> BadText("bogus")]>>)

HandleFiles == {NoFile, FileOf(<<>>), GoodFile, BadAddressFile}

HandleInit ==
    /\ ServerOff
    /\ arg \in [dg : Datagrams, f : HandleFiles]
    /\ ret = <<>>

HandleApply ==
    /\ ret = <<>>
    /\ ret' = <<handleDNSClient(RecvBuffer(arg.dg), arg.f)>>
    /\ UNCHANGED <<arg, serverVars>>

HandleSpec == HandleInit /\ [][HandleApply]_vars

\* The header of a response and the number of records written in each of
\* its sections, over tables large enough for the 16-bit counts to wrap.
CountFiles == HandleFiles \cup {BigFile}

SectionCounts(r) ==
    [panic |-> r.panic,
     header |-> r.response.header,
     written |-> [questions |-> Len(r.response.questions),
                  answers |-> Len(r.response.answers),
                  authorities |-> Len(r.response.authorities),
                  additionals |-> Len(r.response.additionals)]]

CountInit ==
    /\ ServerOff
    /\ arg \in [dg : Datagrams, f : CountFiles]
    /\ ret = <<>>

CountApply ==
    /\ ret = <<>>
    /\ ret' = <<SectionCounts(handleDNSClient(RecvBuffer(arg.dg), arg.f))>>
    /\ UNCHANGED <<arg, serverVars>>

CountSpec == CountInit /\ [][CountApply]_vars

\* ---- the handler, loop iteration by loop iteration, over one datagram
\* and one content of the file.  ret[1] is the position of the handler:
\* pc is "question" at the head of the question loop (line 117), "label" at
\* the test of readDomainName's loop (line 73), "fields" before lines
\* 124-125, "lookup" at the head of the lookup loop (line 132), "encode" at
\* line 140, then "returned" or "panicked".
MaxGarbageLen == 2

\* requestBuffer.ReadByte() with off bytes consumed, never reaching the end
ReadByteNoEOF(buf, off) ==
    IF off >= Len(buf) THEN [b |-> 1, off |-> off, err |-> FALSE]
    ELSE [b |-> buf[off + 1], off |-> off + 1, err |-> FALSE]

\* requestBuffer.ReadByte() with off bytes consumed
ReadByte(buf, off) ==
    IF off >= Len(buf) THEN [b |-> 0, off |-> off, err |-> TRUE]
    ELSE [b |-> buf[off + 1], off |-> off + 1, err |-> FALSE]

\* headers announcing one, two or 65535 questions, followed by a few bytes
\* that are no question section
GarbageQueries ==
    {Query(QueryId(7), n, body) :
        n \in {1, 2, 65535},
        body \in StringsUpTo({0, 1, 3, MaxLabelLen}, MaxGarbageLen)}

StepDatagrams ==
    GarbageQueries
        \cup {DgA, DgRoot, DgTwo, DgMixed, DgNoBody, DgTooFew, DgOverrun,
              DgShort}

StepFiles == {NoFile, GoodFile, BadAddressFile}

StepInit ==
    /\ ServerOff
    /\ arg \in [dg : StepDatagrams, f : StepFiles]
    /\ ret = <<>>

Buf == RecvBuffer(arg.dg)

\* lines 105-115
StepHeader ==
    /\ ret = <<>>
    /\ LET d == DecodeHeader(Buf)
       IN  ret' = <<[pc |-> "question", hdr |-> d.hdr, off |-> d.off,
                     questions |-> <<>>, name |-> <<>>, b |-> 0,
                     err |-> d.err, lidx |-> 0, answers |-> <<>>,
                     response |-> <<>>]>>
    /\ UNCHANGED <<arg, serverVars>>

\* line 117, and lines 69-71 when there is a question left to read
StepQuestion ==
    /\ Applied
    /\ ret[1].pc = "question"
    /\ ret' = <<IF Len(ret[1].questions) = ret[1].hdr.NumQuestions
                THEN [ret[1] EXCEPT !.pc = "lookup"]
                ELSE LET r == ReadByte(Buf, ret[1].off)
                     IN  [ret[1] EXCEPT !.pc = "label", !.name = <<>>,
                                        !.b = r.b, !.off = r.off,
                                        !.err = r.err]>>
    /\ UNCHANGED <<arg, serverVars>>

\* line 73: the loop test, then one iteration (lines 74-82 and the
\* ReadByte of the post statement) or the return of line 85
StepLabel ==
    /\ Applied
    /\ ret[1].pc = "label"
    /\ ret' = <<IF ret[1].b # 0 /\ ~ret[1].err
                THEN LET n == Min(ret[1].b, Len(Buf) - ret[1].off)
                         labelName == SubSeq(Buf, ret[1].off + 1,
                                             ret[1].off + n)
                         r == ReadByte(Buf, ret[1].off + n)
                     IN  [ret[1] EXCEPT
                            !.name = IF Len(@) = 0 THEN labelName
                                     ELSE @ \o <<Dot>> \o labelName,
                            !.b = r.b, !.off = r.off, !.err = r.err]
                ELSE [ret[1] EXCEPT !.pc = "fields"]>>
    /\ UNCHANGED <<arg, serverVars>>

\* lines 124-125
StepFields ==
    /\ Applied
    /\ ret[1].pc = "fields"
    /\ ret' = <<IF Len(Buf) - ret[1].off < 4
                THEN [ret[1] EXCEPT !.pc = "panicked"]
                ELSE LET o == ret[1].off
                     IN  [ret[1] EXCEPT
                            !.pc = "question",
                            !.off = o + 4,
                            !.questions = Append(@,
                                QuestionRecord(ret[1].name,
                                    BigEndianUint16(Buf[o + 1], Buf[o + 2]),
                                    BigEndianUint16(Buf[o + 3], Buf[o + 4])))]>>
    /\ UNCHANGED <<arg, serverVars>>

\* lines 132-138: the loop test and one iteration
StepLookup ==
    /\ Applied
    /\ ret[1].pc = "lookup"
    /\ ret' = <<IF ret[1].lidx = Len(ret[1].questions)
                THEN [ret[1] EXCEPT !.pc = "encode"]
                ELSE LET r == dbLookup(ret[1].questions[ret[1].lidx + 1],
                                       arg.f)
                     IN  IF r.panic THEN [ret[1] EXCEPT !.pc = "panicked"]
                         ELSE [ret[1] EXCEPT !.lidx = @ + 1,
                                             !.answers = @ \o r.answers]>>
    /\ UNCHANGED <<arg, serverVars>>

\* lines 140-211: the loops range over the slices built so far
StepEncode ==
    /\ Applied
    /\ ret[1].pc = "encode"
    /\ ret' = <<[ret[1] EXCEPT
                    !.pc = "returned",
                    !.response = ResponseBytes(
                        BuildResponse(ret[1].hdr, ret[1].questions,
                                      ret[1].answers, <<>>, <<>>))]>>
    /\ UNCHANGED <<arg, serverVars>>

StepNext ==
    \/ StepHeader
    \/ StepQuestion
    \/ StepLabel
    \/ StepFields
    \/ StepLookup
    \/ StepEncode

StepSpec == StepInit /\ [][StepNext]_vars

\* the goroutine of the handler is scheduled as long as it can run
FairStepSpec == StepSpec /\ WF_vars(StepNext)

(***************************************************************************)
(* Claims about the functions.                                             *)
(***************************************************************************)
Result == ret[1]

\* C3 (CountSpec): in every response handleDNSClient builds, each of the
\* four header counts equals the number of records written in its section.
C3_CountsEqualSections ==
    (Applied /\ Result.panic = "") =>
        /\ Result.header.NumQuestions = Result.written.questions
        /\ Result.header.NumAnswers = Result.written.answers
        /\ Result.header.NumAuthorities = Result.written.authorities
        /\ Result.header.NumAdditionals = Result.written.additionals

\* C4 (HandleSpec): for a well-formed request, the question section bytes
\* of the response are those of the request.
C4_QuestionSectionEchoed ==
    (Applied /\ arg.dg \in WellFormedQueries /\ Result.panic = "") =>
        Flatten(Result.response.questions) = QuestionSection(arg.dg)

\* the header of the request as binary.Read finds it in the buffer
RequestHeader == DecodeHeader(RecvBuffer(arg.dg)).hdr

\* C14 (HandleSpec): the header of every response carries the transaction
\* ID found in the request and, as flags, the response bit and no other,
\* whatever the flags of the request.
C14_IdEchoedFlagsResponseOnly ==
    (Applied /\ Result.panic = "") =>
        /\ Result.response.header.TransactionID
               = BigEndianUint16(arg.dg[1], arg.dg[2])
        /\ Result.response.header.Flags = FlagResponse

\* a request with every flag bit set and a transaction ID other than zero
\* was answered
C14_Witness ==
    /\ Applied
    /\ Result.panic = ""
    /\ RequestHeader.Flags = 65535
    /\ RequestHeader.TransactionID = 65535
    /\ Result.response.header.TransactionID = 65535

\* the entries of the file a question for name is answered from, in the
\* order of the file, as <<name, four address bytes>>
AnswersDue(q, f) ==
    IF f.ok /\ q.Type = TypeA /\ q.Class = ClassINET
    THEN LET hit == SelectSeq(f.entries,
                        LAMBDA en : Contains(q.DomainName, en.name))
         IN  [i \in 1..Len(hit) |-> <<hit[i].name, hit[i].address.quad>>]
    ELSE <<>>

\* C17 (HandleSpec): the answer section of a response holds, question
\* after question in the order of the request, the answers of each
\* question in the order of the name table; the authority and additional
\* sections hold nothing.
C17_AnswersInQuestionThenTableOrder ==
    (Applied /\ Result.panic = "") =>
        /\ [i \in 1..Len(Result.answers) |->
               <<Result.answers[i].DomainName,
                 Result.answers[i].ResourceData>>]
               = Flatten([i \in 1..Len(Result.questions) |->
                             AnswersDue(Result.questions[i], arg.f)])
        /\ Result.response.answers
               = [i \in 1..Len(Result.answers) |->
                     EncodeRecord(Result.answers[i])]
        /\ Result.response.authorities = <<>>
        /\ Result.response.additionals = <<>>

\* two questions answered from two entries: "ab" by both, then "a" by one
C17_Witness ==
    /\ Applied
    /\ Result.panic = ""
    /\ arg.dg = DgTwo
    /\ arg.f = GoodFile
    /\ Len(Result.response.answers) = 3

\* the handler has returned or panicked
Ended == Applied /\ Result.pc \in {"returned", "panicked"}

\* the handler run step by step ends as handleDNSClient does
StepAgrees ==
    Ended =>
        LET r == handleDNSClient(Buf, arg.f)
        IN  /\ (Result.pc = "panicked") = (r.panic # "")
            /\ Result.pc = "returned" =>
                   /\ Result.questions = r.questions
                   /\ Result.response = ResponseBytes(r.response)

\* C16 (FairStepSpec): the handling of every request ends.  An iteration
\* of readDomainName's loop consumes at least one byte or ends at the end
\* of the buffer, the question loop reads no more questions than the
\* header counts, the lookup loop looks up no more than were read, and the
\* handler returns or panics.
C16_HandlerTerminates ==
    /\ [][(Applied /\ Result.pc = "label" /\ Result'.pc = "label")
              => (Result'.off > Result.off \/ Result'.err)]_vars
    /\ [](Applied =>
              /\ Result.off <= UDPMaxMessageSizeBytes
              /\ Len(Result.questions) <= Result.hdr.NumQuestions
              /\ Result.lidx <= Len(Result.questions))
    /\ <>Ended

\* a label longer than what is left of the buffer was read up to the last
\* byte and the handler has ended
C16_Witness ==
    /\ Ended
    /\ arg.dg = DgOverrun
    /\ Result.err
    /\ Result.off = UDPMaxMessageSizeBytes

\* every label of a dotted name is at most 255 bytes long
LabelsFit(name) ==
    \A i \in 1..Len(Split(name)) : Len(Split(name)[i]) <= MaxLabelLen

\* C5 (CodecSpec): decoding what writeDomainName wrote for a name whose
\* labels are at most 255 bytes yields the name and consumes every byte
\* written.
C5_NameRoundTrip ==
    (Applied /\ LabelsFit(arg)) =>
        /\ ~Result.back.err
        /\ Result.back.name = arg
        /\ Result.back.off = Len(Result.wire)

\* C6 (CodecSpec): writeDomainName of the empty name appends exactly one
\* byte, a zero.
C6_EmptyNameIsOneZero ==
    (Applied /\ arg = <<>>) => Result.wire = <<0>>

\* the positions of the table entries whose name the queried name contains
MatchingEntries(q, entries) ==
    {i \in 1..Len(entries) : Contains(q.DomainName, entries[i].name)}

\* C7 (LookupSpec): for an A/INET question over a readable table, the
\* answers are one per entry whose name is a substring of the queried name,
\* each with that entry's name and address, and there is no other answer.
C7_OneAnswerPerMatch ==
    (Applied /\ arg.f.ok /\ arg.q.Type = TypeA /\ arg.q.Class = ClassINET) =>
        LET hit == MatchingEntries(arg.q, arg.f.entries)
            ans == Result.answers
        IN  /\ Len(ans) = Cardinality(hit)
            /\ \A e \in {arg.f.entries[i] : i \in hit} :
                   Cardinality({k \in 1..Len(ans) :
                                   /\ ans[k].DomainName = e.name
                                   /\ ans[k].ResourceData = e.address.quad
                                   /\ Len(ans[k].ResourceData) = 4})
                       = Cardinality({i \in hit : arg.f.entries[i] = e})

\* C8 (LookupSpec): a question that is not of type A or not of class INET
\* gets empty answer, authority and additional sets, whatever the file
\* holds and whether or not it can be read.
C8_OtherTypesResolveToNothing ==
    (Applied /\ (arg.q.Type # TypeA \/ arg.q.Class # ClassINET)) =>
        /\ ~Result.panic
        /\ Result.answers = <<>>
        /\ Result.authorities = <<>>
        /\ Result.additionals = <<>>

\* C8 witness: an AAAA question was resolved over a readable table holding
\* an entry that its name contains, with an address text that is no IP
C8_Witness ==
    /\ Applied
    /\ arg.q.Type = TypeAAAA
    /\ arg.q.Class = ClassINET
    /\ arg.f.ok
    /\ \E i \in MatchingEntries(arg.q, arg.f.entries) :
           arg.f.entries[i].address.quad = <<>>

(***************************************************************************)
(* The server: the main loop, one goroutine per datagram, and the HTTP     *)
(* add-entry handler, all sharing ./names.json.                            *)
(***************************************************************************)
\* a handler as "go handleDNSClient(requestBytes, serverConn, clientAddr)"
\* starts it; names and newAnswerRR are the locals of its last dbLookup.
\* Three fields are history, not program state: datagram is what the client
\* sent (its length is the count ReadFromUDP returns and main discards),
\* errsBefore the receive errors that preceded it, addsSeen the add-entry
\* requests as they stood when the last dbLookup read the file.
NewHandler(requestBytes, clientAddr) ==
    [pc           |-> "decode",
     requestBytes |-> requestBytes,
     clientAddr   |-> clientAddr,
     hdrErr       |-> FALSE,
     queryHeader  |-> ZeroHeader,
     questions    |-> <<>>,
     off          |-> 0,
     idx          |-> 0,
     names        |-> [err |-> FALSE, names |-> <<>>],
     newAnswerRR  |-> <<>>,
     loadErr      |-> <<>>,
     answers      |-> <<>>,
     authorities  |-> <<>>,
     additionals  |-> <<>>,
     panicAt      |-> "",
     datagram     |-> <<>>,
     errsBefore   |-> 0,
     addsSeen     |-> <<>>]

ServerDatagrams == {DgA, DgRoot, DgTwo, DgTooFew, DgOverrun, DgShort}

InitFiles == {NoFile, GoodFile, BadAddressFile}

AddRequests ==
    {[name |-> <<LetterA>>, ip |-> V4Text(Quad2)],
     [name |-> <<LetterA>>, ip |-> BadText("bogus")],
     [name |-> <<LetterB>>, ip |-> V4Text(Quad1)],
     [name |-> <<>>, ip |-> V4Text(Quad1)],
     [name |-> <<LetterA>>, ip |-> BadText("")]}

Init ==
    /\ file \in InitFiles
    /\ h = <<>>
    /\ sent = [a \in 1..MaxDatagrams |-> <<>>]
    /\ nRecv = 0
    /\ nErr = 0
    /\ adds = <<>>
    /\ crashed = FALSE
    /\ arg = <<>>
    /\ ret = <<>>

\* the model runs MaxRequests requests at most
RoomForRequest == nRecv + Len(adds) < MaxRequests

\* the handler the main loop starts for datagram dg
Spawned(dg) ==
    [NewHandler(RecvBuffer(dg), nRecv + 1) EXCEPT
        !.datagram = dg, !.errsBefore = nErr]

\* the main loop with "requestBytes := make(...)" hoisted out of the loop:
\* one buffer, which every handler started so far reads from
ReceiveSharedBuffer(dg) ==
    /\ ~crashed
    /\ nRecv < MaxDatagrams
    /\ RoomForRequest
    /\ nRecv' = nRecv + 1
    /\ h' = Append([k \in 1..Len(h) |->
                       [h[k] EXCEPT !.requestBytes = RecvBuffer(dg)]],
                   Spawned(dg))
    /\ UNCHANGED <<file, sent, nErr, adds, crashed, arg, ret>>

\* the main loop calling handleDNSClient without "go": the next receive
\* waits for the handler to return
ReceiveAfterReturn(dg) ==
    /\ ~crashed
    /\ nRecv < MaxDatagrams
    /\ RoomForRequest
    /\ \A k \in 1..Len(h) : h[k].pc = "done"
    /\ nRecv' = nRecv + 1
    /\ h' = Append(h, Spawned(dg))
    /\ UNCHANGED <<file, sent, nErr, adds, crashed, arg, ret>>

\* main loop, lines 250-261: ReadFromUDP returned a datagram; the k-th
\* datagram received comes from address k
Receive(dg) ==
    /\ ~crashed
    /\ nRecv < MaxDatagrams
    /\ RoomForRequest
    /\ nRecv' = nRecv + 1
    /\ h' = Append(h, Spawned(dg))
    /\ UNCHANGED <<file, sent, nErr, adds, crashed, arg, ret>>

\* the main loop returning from main on a receive error
ReceiveErrorFatal ==
    /\ ~crashed
    /\ nErr < MaxRecvErrors
    /\ nErr' = nErr + 1
    /\ crashed' = TRUE
    /\ UNCHANGED <<file, h, sent, nRecv, adds, arg, ret>>

\* main loop, lines 255-256: ReadFromUDP returned an error
ReceiveError ==
    /\ ~crashed
    /\ nErr < MaxRecvErrors
    /\ nErr' = nErr + 1
    /\ UNCHANGED <<file, h, sent, nRecv, adds, crashed, arg, ret>>

\* handleDNSClient, lines 105-130
Decode(k) ==
    /\ ~crashed
    /\ h[k].pc = "decode"
    /\ \E d \in {DecodeRequest(h[k].requestBytes)} :
           /\ h' = [h EXCEPT ![k] =
                      [@ EXCEPT !.pc = IF d.panic THEN "panicked" ELSE "lookup",
                                !.panicAt = IF d.panic THEN "decode" ELSE "",
                                !.hdrErr = d.hdrErr,
                                !.queryHeader = d.hdr,
                                !.questions = d.questions,
                                !.off = d.off]]
           /\ crashed' = d.panic
    /\ UNCHANGED <<file, sent, nRecv, nErr, adds, arg, ret>>

\* handleDNSClient, lines 132-138: one iteration, one read of the file
Lookup(k) ==
    /\ ~crashed
    /\ h[k].pc = "lookup"
    /\ h[k].idx < Len(h[k].questions)
    /\ LET r == dbLookup(h[k].questions[h[k].idx + 1], file)
       IN  /\ h' = [h EXCEPT ![k] =
                      [@ EXCEPT !.pc = IF r.panic THEN "panicked" ELSE "lookup",
                                !.panicAt = IF r.panic THEN "lookup" ELSE "",
                                !.idx = @ + 1,
                                !.names = GetNames(file),
                                !.addsSeen = adds,
                                !.newAnswerRR = r.answers,
                                !.loadErr = Append(@, GetNames(file).err),
                                !.answers = @ \o r.answers,
                                !.authorities = @ \o r.authorities,
                                !.additionals = @ \o r.additionals]]
           /\ crashed' = r.panic
    /\ UNCHANGED <<file, sent, nRecv, nErr, adds, arg, ret>>

\* handleDNSClient, lines 140-211
Respond(k) ==
    /\ ~crashed
    /\ h[k].pc = "lookup"
    /\ h[k].idx = Len(h[k].questions)
    /\ h' = [h EXCEPT ![k].pc = "done"]
    /\ sent' = [sent EXCEPT ![h[k].clientAddr] =
                   Append(@, ResponseBytes(
                       BuildResponse(h[k].queryHeader, h[k].questions,
                                     h[k].answers, h[k].authorities,
                                     h[k].additionals)))]
    /\ UNCHANGED <<file, nRecv, nErr, adds, crashed, arg, ret>>

\* handleAddEntry, lines 40-56
Upsert(existingEntries, name, address) ==
    IF \E i \in 1..Len(existingEntries) : existingEntries[i].Name = name
    THEN LET i == CHOOSE i \in 1..Len(existingEntries) :
                      /\ existingEntries[i].Name = name
                      /\ \A j \in 1..(i - 1) : existingEntries[j].Name # name
         IN  [existingEntries EXCEPT ![i].Address = address]
    ELSE Append(existingEntries, [Name |-> name, Address |-> address])

\* json.MarshalIndent(existingEntries), as GetNames reads it back
MarshalEntries(entries) ==
    [i \in 1..Len(entries) |->
        [name |-> entries[i].Name, address |-> IPText(entries[i].Address)]]

\* decimal digits of a byte
Digits(n) == IF n < 10 THEN 1 ELSE IF n < 100 THEN 2 ELSE 3

\* bytes of an address text
TextLen(t) ==
    IF t.text = "dotted-quad"
    THEN Digits(t.quad[1]) + Digits(t.quad[2]) + Digits(t.quad[3])
             + Digits(t.quad[4]) + 3
    ELSE Len(t.text)

\* bytes json.MarshalIndent(existingEntries, "", "    ") renders the first
\* n entries in: per entry the lines of "{", "Name", "Address" and "}",
\* which take 53 bytes besides the two texts
RECURSIVE EntriesLen(_, _)
EntriesLen(entries, n) ==
    IF n = 0 THEN 0
    ELSE EntriesLen(entries, n - 1)
             + 53 + Len(entries[n].name) + TextLen(entries[n].address)

\* "[" and "]" on lines of their own, the entries, "," and a line break
\* between two of them
JsonLen(entries) ==
    IF Len(entries) = 0 THEN 2
    ELSE 4 + EntriesLen(entries, Len(entries)) + 2 * (Len(entries) - 1)

\* a file of size bytes that is no JSON value
Garbage(size) == [ok |-> FALSE, entries |-> <<>>, size |-> size]

\* bytes in the file; a file that is not ok and records no size is missing
\* or empty
FileSize(f) ==
    IF f.ok THEN JsonLen(f.entries)
    ELSE IF "size" \in DOMAIN f THEN f.size ELSE 0

\* handleAddEntry, lines 24-63: the parameters, the read of the file, the
\* upsert in memory.  Two fields of an invocation are history: before is
\* the content of the file its write replaced, doneAt its rank among the
\* invocations that completed.
AddStart(r) ==
    /\ ~crashed
    /\ Len(adds) < MaxAddRequests
    /\ RoomForRequest
    /\ LET g == GetNames(file)
           new == [pc |-> "done", status |-> 0, name |-> r.name,
                   ip |-> r.ip, data |-> <<>>, before |-> NoFile,
                   doneAt |-> 0]
       IN  adds' = Append(adds,
               IF r.name = <<>> \/ r.ip = BadText("")
               THEN [new EXCEPT !.status = 400]
               ELSE IF g.err
               THEN [new EXCEPT !.status = 500]
               ELSE [new EXCEPT
                       !.pc = "open",
                       !.data = MarshalEntries(
                                    Upsert(g.names, r.name, ParseIP(r.ip)))])
    /\ UNCHANGED <<file, h, sent, nRecv, nErr, crashed, arg, ret>>

\* os.WriteFile, line 65: the file is opened with O_TRUNC
AddTruncate(a) ==
    /\ ~crashed
    /\ adds[a].pc = "open"
    /\ adds' = [adds EXCEPT ![a].pc = "write", ![a].before = file]
    /\ file' = NoFile
    /\ UNCHANGED <<h, sent, nRecv, nErr, crashed, arg, ret>>

\* os.WriteFile, line 65: the data is written from offset 0 of the file
\* as it is now; what another writer has put beyond the end of the data
\* since the file was opened stays, and the file is no JSON value then.
\* Lines 71-73.
AddWrite(a) ==
    /\ ~crashed
    /\ adds[a].pc = "write"
    /\ adds' = [adds EXCEPT
                   ![a].pc = "done", ![a].status = 200,
                   ![a].doneAt =
                       1 + Cardinality({b \in 1..Len(adds) :
                                           adds[b].status = 200})]
    /\ file' = IF FileSize(file) > JsonLen(adds[a].data)
               THEN Garbage(FileSize(file))
               ELSE FileOf(adds[a].data)
    /\ UNCHANGED <<h, sent, nRecv, nErr, crashed, arg, ret>>

\* a step of the k-th goroutine started
HandlerStep(k) ==
    k \in 1..Len(h) /\ (Decode(k) \/ Lookup(k) \/ Respond(k))

Next ==
    \/ \E dg \in ServerDatagrams : Receive(dg)
    \/ ReceiveError
    \/ \E k \in 1..Len(h) : Decode(k)
    \/ \E k \in 1..Len(h) : Lookup(k)
    \/ \E k \in 1..Len(h) : Respond(k)
    \/ \E r \in AddRequests : AddStart(r)
    \/ \E a \in 1..Len(adds) : AddTruncate(a)
    \/ \E a \in 1..Len(adds) : AddWrite(a)

Spec == Init /\ [][Next]_vars

\* a goroutine that can run is eventually run
FairSpec == Spec /\ \A k \in 1..MaxDatagrams : WF_vars(HandlerStep(k))

(***************************************************************************)
(* Claims about the server.                                                *)
(***************************************************************************)
Handlers == 1..Len(h)

\* C1 (Spec): whatever the request buffer holds, handleDNSClient does not
\* panic while decoding it (lines 115-126) and so goes on to respond.
C1_DecodeNeverPanics ==
    \A k \in Handlers : h[k].panicAt # "decode"

\* C2 (FairSpec): every datagram the main loop receives is eventually
\* answered with exactly one response to its source address, and never
\* with more than one.
C2_ExactlyOneResponse ==
    \A k \in 1..MaxDatagrams :
        /\ [](Len(sent[k]) <= 1)
        /\ (nRecv >= k) ~> (Len(sent[k]) = 1)

\* the question section of the request of handler k, as decoded
RequestQuestionSection(k) ==
    SubSeq(h[k].requestBytes, HeaderSizeBytes + 1, h[k].off)

\* the response of handler k carries the transaction ID and the question
\* section of its request, followed by its answer records
EchoesRequest(k) ==
    LET resp == sent[h[k].clientAddr][1]
        req == h[k].requestBytes
    IN  /\ SubSeq(resp, 1, 2) = SubSeq(req, 1, 2)
        /\ SubSeq(resp, HeaderSizeBytes + 1, Len(resp))
               = RequestQuestionSection(k)
                     \o Flatten([i \in 1..Len(h[k].answers) |->
                                    EncodeRecord(h[k].answers[i])])

\* C9 (Spec): when the name table cannot be loaded for a question, that
\* question gets no answer, the handler does not die, and the response it
\* sends echoes the transaction ID and the questions of the request.
C9_LoadFailureAbsorbed ==
    \A k \in Handlers :
        (\E i \in 1..Len(h[k].loadErr) : h[k].loadErr[i]) =>
            /\ h[k].pc # "panicked"
            /\ h[k].loadErr[h[k].idx] => h[k].newAnswerRR = <<>>
            /\ h[k].pc = "done" =>
                   /\ Len(sent[h[k].clientAddr]) = 1
                   /\ EchoesRequest(k)

\* C10 (Spec): whatever entries the file holds, an A/INET lookup over it
\* emits for every matching entry an answer record whose resource-data
\* length field is 4 and whose resource data is 4 bytes long, and emits no
\* other kind of record.
C10_AnswersCarryFourBytes ==
    \A k \in Handlers :
        LET hk == h[k]
            q == hk.questions[hk.idx]
        IN  /\ \A i \in 1..Len(hk.answers) :
                   /\ hk.answers[i].ResourceDataLength = 4
                   /\ Len(hk.answers[i].ResourceData) = 4
            /\ (hk.idx > 0 /\ ~hk.names.err /\ q.Type = TypeA
                    /\ q.Class = ClassINET) =>
                   \A i \in 1..Len(hk.names.names) :
                       Contains(q.DomainName, hk.names.names[i].Name) =>
                           \E a \in 1..Len(hk.newAnswerRR) :
                               /\ hk.newAnswerRR[a].DomainName
                                      = hk.names.names[i].Name
                               /\ hk.newAnswerRR[a].ResourceDataLength = 4
                               /\ Len(hk.newAnswerRR[a].ResourceData) = 4

\* C11 (Spec): a handler started for a datagram shorter than a header
\* finds the header decode failing (err # nil at line 111).
C11_ShortDatagramFailsHeader ==
    \A k \in Handlers :
        (Len(h[k].datagram) < HeaderSizeBytes /\ h[k].pc # "decode") =>
            h[k].hdrErr

\* a handler has panicked and taken the process with it
SomePanic == \E k \in Handlers : h[k].pc = "panicked"

\* C12 (Spec): the handlers started are as many as the successful receives,
\* and while the process lives the main loop can receive the next datagram
\* whatever the handlers already started are doing.
C12_OneHandlerPerReceive ==
    /\ Len(h) = nRecv
    /\ (~SomePanic /\ nRecv < MaxDatagrams /\ RoomForRequest)
           => ENABLED Receive(DgA)

\* a second datagram was received while the handler of the first had not
\* begun to decode, and both handlers exist
C12_Witness ==
    /\ nRecv = 2
    /\ Len(h) = 2
    /\ h[1].pc = "decode"
    /\ h[2].pc = "decode"

\* the response handler k builds from what it decoded out of req
ResponseFrom(k, req) ==
    LET d == DecodeRequest(req)
    IN  ResponseBytes(BuildResponse(d.hdr, d.questions, h[k].answers,
                                    h[k].authorities, h[k].additionals))

\* C13 (Spec): the buffer a handler reads holds the datagram it was started
\* for, whatever was received since, and the response it sends is built
\* from that datagram.
C13_RequestNotShared ==
    \A k \in Handlers :
        /\ h[k].requestBytes = RecvBuffer(h[k].datagram)
        /\ h[k].pc = "done" =>
               sent[h[k].clientAddr]
                   = <<ResponseFrom(k, RecvBuffer(h[k].datagram))>>

\* the first handler has answered its datagram after a different one was
\* received
C13_Witness ==
    /\ Len(h) = 2
    /\ h[1].datagram # h[2].datagram
    /\ h[1].pc = "done"
    /\ h[2].pc = "decode"
    /\ Len(sent[1]) = 1

\* C15 (Spec): a receive error starts no handler, and after any number of
\* receive errors the main loop can still receive a datagram (no handler
\* having panicked), which is then dispatched.
C15_ReceiveErrorNotFatal ==
    /\ [][nErr' # nErr => (h' = h /\ nRecv' = nRecv)]_vars
    /\ []((nErr > 0 /\ ~SomePanic /\ nRecv < MaxDatagrams /\ RoomForRequest)
              => ENABLED Receive(DgA))
    /\ [](Len(h) = nRecv)

\* a datagram received after a receive error was handled and answered
C15_Witness ==
    \E k \in Handlers :
        /\ h[k].errsBefore > 0
        /\ h[k].pc = "done"
        /\ Len(sent[h[k].clientAddr]) = 1

\* the add-entry requests among seen that completed with status 200
Completed(seen) == {a \in 1..Len(seen) : seen[a].status = 200}

\* the last of them to complete for the name of a
LatestFor(seen, a) ==
    CHOOSE b \in Completed(seen) :
        /\ seen[b].name = seen[a].name
        /\ \A c \in Completed(seen) :
               seen[c].name = seen[a].name => seen[c].doneAt <= seen[b].doneAt

\* C18 (Spec): a lookup of an A/INET question that reads the file after an
\* add-entry request for a name contained in the queried name has completed
\* with status 200 returns an answer for that name, carrying the address
\* of the last such request completed.  Stated for the lookups that
\* return and the requests whose ip is an IPv4 address.
C18_CompletedAddIsResolved ==
    \A k \in Handlers :
        LET hk == h[k]
            q == hk.questions[hk.idx]
        IN  (hk.idx > 0 /\ q.Type = TypeA /\ q.Class = ClassINET
                 /\ hk.panicAt = "") =>
                \A a \in Completed(hk.addsSeen) :
                    (/\ Contains(q.DomainName, hk.addsSeen[a].name)
                     /\ hk.addsSeen[LatestFor(hk.addsSeen, a)].ip.quad # <<>>)
                    =>
                        \E i \in 1..Len(hk.newAnswerRR) :
                            /\ hk.newAnswerRR[i].DomainName
                                   = hk.addsSeen[a].name
                            /\ hk.newAnswerRR[i].ResourceData
                                   = hk.addsSeen[LatestFor(hk.addsSeen, a)]
                                         .ip.quad

\* the names of the entries of the file
FileNames == [i \in 1..Len(file.entries) |-> file.entries[i].name]

\* C19 (Spec): once every add-entry request started has returned, the file
\* holds the names of any two of them that were for different names and
\* completed with status 200, and it never holds a name twice.
C19_ConcurrentAddsBothKept ==
    /\ (\A a \in 1..Len(adds) : adds[a].pc = "done") =>
           \A a, b \in Completed(adds) :
               adds[a].name # adds[b].name =>
                   \E i \in 1..Len(FileNames) : FileNames[i] = adds[a].name
    /\ \A i, j \in 1..Len(FileNames) :
           FileNames[i] = FileNames[j] => i = j

\* C20 (Spec): what a lookup reads from the file while an add-entry
\* request is between the opening of the file and the writing of its data
\* is the table the file held before or the table the request writes.
C20_SnapshotBeforeOrAfter ==
    \A k \in Handlers :
        h[k].idx > 0 =>
            \A a \in 1..Len(h[k].addsSeen) :
                h[k].addsSeen[a].pc = "write" =>
                    h[k].names \in {GetNames(h[k].addsSeen[a].before),
                                    GetNames(FileOf(h[k].addsSeen[a].data))}

====
